---- MODULE Spec2Model ----
(***************************************************************************)
(* Daily-Brief-Agent: the unanswered-mention reconciler                    *)
(* (integrations/asana_client.py), the processed-mention ledger            *)
(* (utils/mention_tracker.py) and the mention-handling step of the         *)
(* coordinator (coordinator.py, Step 4.5).                                 *)
(*                                                                         *)
(* Times are whole hours.  A comment's created_at is an hour >= 0,         *)
(* BadTime when it is a string datetime.fromisoformat rejects, or NoTime   *)
(* when the story carries no created_at (None).                            *)
(* A comment's html_text is the sequence of its <a> elements, each with    *)
(* its data-asana-type and data-asana-gid attributes; plain "@Name" text   *)
(* carries no element.                                                     *)
(***************************************************************************)
EXTENDS Integers, Sequences, FiniteSets, TLC

\* Bounds of the model.
MaxTime == 2
LookbackHours == 1
MaxComments == 3

None == "None"
BadTime == 0 - 1
NoReply == 0 - 1
NoTime == 0 - 3

Alice == "alice"
Bob == "bob"
Carol == "carol"

\* Config.MONITORED_USER_NAMES, and the workspace directory's gid of each name.
MONITORED_USER_NAMES == <<"Bob", "Carol">>
GidOfName == [n \in {"Bob", "Carol"} |-> IF n = "Bob" THEN Bob ELSE Carol]

Link(type, gid) == [type |-> type, gid |-> gid]

(***************************************************************************)
(* The reconciler.                                                         *)
(***************************************************************************)

\* get_user_gid_by_name: the gid of a name the directory lists, None
\* when the lookup fails or the name is not listed.
get_user_gid_by_name(user_name, directory) ==
    IF user_name \in directory THEN GidOfName[user_name] ELSE None

\* The first loop giving up at the first name that does not resolve.
RECURSIVE monitored_gids_from_aborts(_, _, _)
monitored_gids_from_aborts(names, i, directory) ==
    IF i > Len(names) THEN <<>>
    ELSE LET gid == get_user_gid_by_name(names[i], directory)
         IN IF gid # None
            THEN <<gid>> \o monitored_gids_from_aborts(names, i + 1, directory)
            ELSE <<>>

\* The first loop of get_unanswered_mentions: the gids of the names that
\* resolve, in the order of the names.
RECURSIVE monitored_gids_from(_, _, _)
monitored_gids_from(names, i, directory) ==
    IF i > Len(names) THEN <<>>
    ELSE LET gid == get_user_gid_by_name(names[i], directory)
             rest == monitored_gids_from(names, i + 1, directory)
         IN IF gid # None THEN <<gid>> \o rest ELSE rest

\* extract_mentions_from_html: the elements of type "user" that carry a gid.
extract_mentions_from_html(html_text) ==
    SelectSeq(html_text, LAMBDA link : link.type = "user" /\ link.gid # None)

\* The walk that takes the user's comment listed last for the user's
\* latest reply.
RECURSIVE walk_comments_last_listed(_, _, _, _, _)
walk_comments_last_listed(comments, i, user_gid, mentions_to_user, user_last_reply_at) ==
    IF i > Len(comments)
    THEN [mentions |-> mentions_to_user, last |-> user_last_reply_at]
    ELSE LET comment == comments[i]
             hits == SelectSeq(extract_mentions_from_html(comment.html_text),
                               LAMBDA m : m.gid = user_gid)
             found == [k \in 1..Len(hits) |->
                         [comment |-> comment, mentioned_at |-> comment.created_at]]
         IN IF comment.created_at = BadTime
            THEN walk_comments_last_listed(comments, i + 1, user_gid,
                                           mentions_to_user, user_last_reply_at)
            ELSE IF comment.author_gid = user_gid
            THEN walk_comments_last_listed(comments, i + 1, user_gid,
                                           mentions_to_user, comment.created_at)
            ELSE walk_comments_last_listed(comments, i + 1, user_gid,
                                           mentions_to_user \o found,
                                           user_last_reply_at)

\* The walk that takes a comment of any monitored user for a reply of the
\* user.
RECURSIVE walk_comments_any_monitored_author(_, _, _, _, _)
walk_comments_any_monitored_author(comments, i, user_gid, mentions_to_user, user_last_reply_at) ==
    IF i > Len(comments)
    THEN [mentions |-> mentions_to_user, last |-> user_last_reply_at]
    ELSE LET comment == comments[i]
             hits == SelectSeq(extract_mentions_from_html(comment.html_text),
                               LAMBDA m : m.gid = user_gid)
             found == [k \in 1..Len(hits) |->
                         [comment |-> comment, mentioned_at |-> comment.created_at]]
         IN IF comment.created_at = BadTime
            THEN walk_comments_any_monitored_author(comments, i + 1, user_gid,
                                                    mentions_to_user,
                                                    user_last_reply_at)
            ELSE IF \E n \in DOMAIN GidOfName : GidOfName[n] = comment.author_gid
            THEN walk_comments_any_monitored_author(
                     comments, i + 1, user_gid, mentions_to_user,
                     IF user_last_reply_at = NoReply
                           \/ comment.created_at > user_last_reply_at
                     THEN comment.created_at ELSE user_last_reply_at)
            ELSE walk_comments_any_monitored_author(comments, i + 1, user_gid,
                                                    mentions_to_user \o found,
                                                    user_last_reply_at)

\* The walk in which a comment of the user also counts as a mention of the
\* user when it refers to the user.
RECURSIVE walk_comments_self_mentions(_, _, _, _, _)
walk_comments_self_mentions(comments, i, user_gid, mentions_to_user, user_last_reply_at) ==
    IF i > Len(comments)
    THEN [mentions |-> mentions_to_user, last |-> user_last_reply_at]
    ELSE LET comment == comments[i]
             hits == SelectSeq(extract_mentions_from_html(comment.html_text),
                               LAMBDA m : m.gid = user_gid)
             found == [k \in 1..Len(hits) |->
                         [comment |-> comment, mentioned_at |-> comment.created_at]]
         IN IF comment.created_at = BadTime
            THEN walk_comments_self_mentions(comments, i + 1, user_gid,
                                             mentions_to_user, user_last_reply_at)
            ELSE walk_comments_self_mentions(
                     comments, i + 1, user_gid, mentions_to_user \o found,
                     IF comment.author_gid = user_gid
                        /\ (user_last_reply_at = NoReply
                             \/ comment.created_at > user_last_reply_at)
                     THEN comment.created_at ELSE user_last_reply_at)

\* The walk over one work item's comments for one monitored user: the
\* mentions of the user by other authors, one per matching element, and the
\* user's latest comment time.
RECURSIVE walk_comments(_, _, _, _, _)
walk_comments(comments, i, user_gid, mentions_to_user, user_last_reply_at) ==
    IF i > Len(comments)
    THEN [mentions |-> mentions_to_user, last |-> user_last_reply_at]
    ELSE LET comment == comments[i] IN
         IF comment.created_at = BadTime
         THEN walk_comments(comments, i + 1, user_gid, mentions_to_user,
                            user_last_reply_at)
         ELSE IF comment.author_gid = user_gid
         THEN walk_comments(comments, i + 1, user_gid, mentions_to_user,
                  IF user_last_reply_at = NoReply
                        \/ comment.created_at > user_last_reply_at
                  THEN comment.created_at ELSE user_last_reply_at)
         ELSE LET hits == SelectSeq(extract_mentions_from_html(comment.html_text),
                                    LAMBDA m : m.gid = user_gid)
                  found == [k \in 1..Len(hits) |->
                              [comment |-> comment,
                               mentioned_at |-> comment.created_at]]
              IN walk_comments(comments, i + 1, user_gid,
                               mentions_to_user \o found, user_last_reply_at)

\* A reply at the very hour of the mention counted as an answer.
has_replied_ge(user_last_reply_at, mention_time) ==
    user_last_reply_at # NoReply /\ user_last_reply_at >= mention_time

\* Any comment of the user counted as an answer, whenever it was written.
has_replied_any(user_last_reply_at, mention_time) ==
    user_last_reply_at # NoReply

\* No comment of the user counted as an answer.
has_replied_never(user_last_reply_at, mention_time) ==
    FALSE

\* has_replied of get_unanswered_mentions.
has_replied(user_last_reply_at, mention_time) ==
    user_last_reply_at # NoReply /\ user_last_reply_at > mention_time

\* The window test off by one: a mention made exactly `since` is dropped.
unanswered_for_user_strict_window(task_gid, comments, user_gid, since) ==
    LET w == walk_comments(comments, 1, user_gid, <<>>, NoReply)
        kept == SelectSeq(w.mentions,
                    LAMBDA md : ~(md.mentioned_at <= since)
                                /\ ~has_replied(w.last, md.mentioned_at))
    IN [k \in 1..Len(kept) |->
          [task_gid |-> task_gid,
           mention_story_gid |-> kept[k].comment.gid,
           mentioned_user_gid |-> user_gid,
           author_gid |-> kept[k].comment.author_gid,
           comment_created_at |-> kept[k].mentioned_at]]

\* Only the last of the user's unanswered mentions in the work item
\* reported.
unanswered_for_user_latest_only(task_gid, comments, user_gid, since) ==
    LET w == walk_comments(comments, 1, user_gid, <<>>, NoReply)
        kept == SelectSeq(w.mentions,
                    LAMBDA md : ~(md.mentioned_at < since)
                                /\ ~has_replied(w.last, md.mentioned_at))
    IN IF kept = <<>> THEN <<>>
       ELSE <<[task_gid |-> task_gid,
               mention_story_gid |-> kept[Len(kept)].comment.gid,
               mentioned_user_gid |-> user_gid,
               author_gid |-> kept[Len(kept)].comment.author_gid,
               comment_created_at |-> kept[Len(kept)].mentioned_at]>>

\* The second loop: the mentions inside the lookback window the user has not
\* replied after, as the dictionaries appended to `unanswered`.
unanswered_for_user(task_gid, comments, user_gid, since) ==
    LET w == walk_comments(comments, 1, user_gid, <<>>, NoReply)
        kept == SelectSeq(w.mentions,
                    LAMBDA md : ~(md.mentioned_at < since)
                                /\ ~has_replied(w.last, md.mentioned_at))
    IN [k \in 1..Len(kept) |->
          [task_gid |-> task_gid,
           mention_story_gid |-> kept[k].comment.gid,
           mentioned_user_gid |-> user_gid,
           author_gid |-> kept[k].comment.author_gid,
           comment_created_at |-> kept[k].mentioned_at]]

RECURSIVE unanswered_for_users(_, _, _, _, _)
unanswered_for_users(task_gid, comments, user_gids, j, since) ==
    IF j > Len(user_gids) THEN <<>>
    ELSE unanswered_for_user(task_gid, comments, user_gids[j], since)
         \o unanswered_for_users(task_gid, comments, user_gids, j + 1, since)

\* The loop over the work items ending at the first work item that has no
\* comments to give.
RECURSIVE unanswered_for_tasks_aborts(_, _, _, _, _)
unanswered_for_tasks_aborts(tasks, i, stories, user_gids, since) ==
    IF i > Len(tasks) THEN <<>>
    ELSE LET comments == stories[tasks[i]]
         IN IF comments = <<>> THEN <<>>
            ELSE unanswered_for_users(tasks[i], comments, user_gids, 1, since)
                 \o unanswered_for_tasks_aborts(tasks, i + 1, stories, user_gids, since)

\* The loop over the work items; a work item without comments is skipped.
RECURSIVE unanswered_for_tasks(_, _, _, _, _)
unanswered_for_tasks(tasks, i, stories, user_gids, since) ==
    IF i > Len(tasks) THEN <<>>
    ELSE LET comments == stories[tasks[i]]
             here == IF comments = <<>> THEN <<>>
                     ELSE unanswered_for_users(tasks[i], comments, user_gids, 1, since)
         IN here \o unanswered_for_tasks(tasks, i + 1, stories, user_gids, since)

\* get_unanswered_mentions.  directory: the names the user lookup resolves;
\* tasks: what get_tasks_modified_since returns; stories[t]: what
\* get_stories_for_task(t) returns (<<>> when the fetch fails).
get_unanswered_mentions(monitored_user_names, directory, tasks, stories, since) ==
    LET user_gids == monitored_gids_from(monitored_user_names, 1, directory)
    IN IF user_gids = <<>> THEN <<>>
       ELSE unanswered_for_tasks(tasks, 1, stories, user_gids, since)

\* comment['created_at'].replace(...) on a comment without created_at
\* raises AttributeError, which `except (ValueError, TypeError)` lets pass:
\* the pass raises as soon as it walks such a comment, which it does for
\* the first resolved user in the first work item that holds one.
get_unanswered_mentions_raises(monitored_user_names, directory, tasks, stories) ==
    /\ monitored_gids_from(monitored_user_names, 1, directory) # <<>>
    /\ \E i \in 1..Len(tasks) : \E k \in 1..Len(stories[tasks[i]]) :
           stories[tasks[i]][k].created_at = NoTime

(***************************************************************************)
(* Inputs of the reconciler: the comments other people and the monitored   *)
(* user write.                                                             *)
(***************************************************************************)
CommentKinds ==
    { [author_gid |-> Alice, html_text |-> <<>>],
      [author_gid |-> Alice, html_text |-> <<Link("user", Bob)>>],
      [author_gid |-> Alice, html_text |-> <<Link("user", Bob), Link("user", Bob)>>],
      [author_gid |-> Alice, html_text |-> <<Link("user", Carol), Link("user", Bob)>>],
      [author_gid |-> Alice, html_text |-> <<Link("task", Bob), Link("user", None)>>],
      [author_gid |-> Bob, html_text |-> <<>>],
      [author_gid |-> Bob, html_text |-> <<Link("user", Bob)>>] }

CreatedAts == {BadTime} \cup (0..MaxTime)

\* The comment of a story that carries no created_at.
UntimedComment == [author_gid |-> Alice, html_text |-> <<>>, created_at |-> NoTime]

(***************************************************************************)
(* The ledger (utils/mention_tracker.py).  The tracker file is missing,    *)
(* holds a complete record ("valid"), or holds the empty or cut-off text   *)
(* that open(TRACKER_FILE, 'w') and an unfinished json.dump leave behind   *)
(* ("partial").  Something other than this program may also leave valid    *)
(* JSON of another shape in it: a top-level array ("array"), or an object  *)
(* whose processed_ids is itself an object keyed by the identifiers        *)
(* ("keyed").  The data directory exists.                                  *)
(***************************************************************************)
Never == 0 - 1
NoGid == 0

MissingFile ==
    [state |-> "missing", processed_ids |-> {}, last_updated |-> Never,
     total_processed |-> 0]

TruncatedFile ==
    [state |-> "partial", processed_ids |-> {}, last_updated |-> Never,
     total_processed |-> 0]

ArrayFile ==
    [state |-> "array", processed_ids |-> {}, last_updated |-> Never,
     total_processed |-> 0]

EmptyRecord ==
    [processed_ids |-> {}, last_updated |-> Never, total_processed |-> 0]

\* load_processed_mentions: the record of a file that exists, opens and
\* parses; the empty record otherwise.  read_ok: open() and json.load did
\* not raise for a reason of the environment's.  set() of a JSON object is
\* the set of its keys, so a "keyed" file loads like a complete record; a
\* top-level array has no get() (AttributeError, caught by `except Exception`).
load_processed_mentions(f, read_ok) ==
    IF f.state = "missing" THEN EmptyRecord
    ELSE IF f.state \in {"valid", "keyed"} /\ read_ok
         THEN [processed_ids |-> f.processed_ids,
               last_updated |-> f.last_updated,
               total_processed |-> f.total_processed]
         ELSE EmptyRecord

\* The data dictionary save_processed_mentions builds.
save_data(mention_ids, existing_data, at) ==
    LET all_ids == existing_data.processed_ids \cup mention_ids
    IN [state |-> "valid", processed_ids |-> all_ids, last_updated |-> at,
        total_processed |-> Cardinality(all_ids)]

\* What an exception inside the try block of save_processed_mentions
\* becomes for its caller.
save_exception_becomes == "logged"

\* Every mention that carries an identifier returned as new, whatever the
\* ledger holds.
filter_new_mentions_ignores_ledger(mentions, tracker_data) ==
    SelectSeq(mentions, LAMBDA mention : mention.mention_story_gid # NoGid)

\* A mention without identifier returned as new.
filter_new_mentions_keeps_unidentified(mentions, tracker_data) ==
    SelectSeq(mentions,
              LAMBDA mention : mention.mention_story_gid
                                  \notin tracker_data.processed_ids)

\* The first of the new mentions left out.
filter_new_mentions_skips_first(mentions, tracker_data) ==
    LET new == SelectSeq(mentions,
                         LAMBDA mention : /\ mention.mention_story_gid # NoGid
                                          /\ mention.mention_story_gid
                                                \notin tracker_data.processed_ids)
    IN IF new = <<>> THEN <<>> ELSE Tail(new)

\* The ledger consulted for the first monitored user only: a mention of
\* anybody else is new whatever the ledger holds.
filter_new_mentions_per_identity(mentions, tracker_data) ==
    SelectSeq(mentions,
              LAMBDA mention : /\ mention.mention_story_gid # NoGid
                               /\ (mention.mentioned_user_gid = Bob =>
                                      mention.mention_story_gid
                                          \notin tracker_data.processed_ids))

\* filter_new_mentions, given what load_processed_mentions returned.
filter_new_mentions(mentions, tracker_data) ==
    SelectSeq(mentions,
              LAMBDA mention : /\ mention.mention_story_gid # NoGid
                               /\ mention.mention_story_gid
                                     \notin tracker_data.processed_ids)

\* The identifiers of all the mentions, a missing one included.
ids_of_mentions_keeps_unidentified(mentions) ==
    {mentions[k].mention_story_gid : k \in 1..Len(mentions)}

\* The mention_ids of mark_mentions_as_processed.
ids_of_mentions(mentions) ==
    {mentions[k].mention_story_gid : k \in 1..Len(mentions)} \ {NoGid}

(***************************************************************************)
(* The workspace the coordinator runs against: three comments that may be  *)
(* posted, on two work items.                                              *)
(***************************************************************************)
Stories == {1, 2, 3}
Tasks == <<"W1", "W2">>
StoryTask == <<"W1", "W1", "W2">>
StoryKind ==
    << [author_gid |-> Alice, html_text |-> <<Link("user", Bob)>>],
       [author_gid |-> Bob, html_text |-> <<>>],
       [author_gid |-> Alice, html_text |-> <<Link("user", Carol), Link("user", Bob)>>] >>
NotPosted == 0 - 2

VARIABLES r_pc, r_comments, r_out,
          now, posted, file, pc, all_unanswered, new_mentions_for_task,
          new_mentions_with_drafts, write_data, run, ever_marked,
          pending,
          l_in, l_call, l_readable,
          p_pc, p_arg, p_existing

rvars == <<r_pc, r_comments, r_out>>
lvars == <<l_in, l_call, l_readable>>
pvars == <<p_pc, p_arg, p_existing>>
cvars == <<now, posted, file, pc, all_unanswered, new_mentions_for_task,
           new_mentions_with_drafts, write_data, run, ever_marked,
           pending>>
vars == <<rvars, cvars, lvars, pvars>>

\* No call of the ledger's functions has been made yet.
NoCall ==
    [op |-> "none", arg |-> <<>>, loaded |-> EmptyRecord, out |-> <<>>,
     twice |-> <<>>, prev |-> <<>>, before |-> MissingFile, wrote |-> "no"]

InitLedger ==
    /\ l_in = <<>>
    /\ l_call = NoCall
    /\ l_readable = TRUE

\* The processes that may run mark_mentions_as_processed at the same time.
NumProcs == 2
Procs == 1..NumProcs

InitRace ==
    /\ p_pc = [p \in Procs |-> "idle"]
    /\ p_arg = [p \in Procs |-> {}]
    /\ p_existing = [p \in Procs |-> EmptyRecord]

(***************************************************************************)
(* The coordinator's mention-handling step (coordinator.py, Step 4.5), one *)
(* action per call it makes, and the workspace around it.  `run` records   *)
(* what happened in the current run.                                       *)
(***************************************************************************)
Range(seq) == {seq[k] : k \in 1..Len(seq)}

TaskSet == Range(Tasks)

\* The posted comments of a work item, oldest first, as the dictionaries
\* get_stories_for_task builds.
RECURSIVE chronological(_)
chronological(S) ==
    IF S = {} THEN <<>>
    ELSE LET first == CHOOSE x \in S : \A y \in S :
                          \/ posted[x] < posted[y]
                          \/ (posted[x] = posted[y] /\ x <= y)
         IN <<[gid |-> first,
               created_at |-> posted[first],
               author_gid |-> StoryKind[first].author_gid,
               html_text |-> StoryKind[first].html_text]>>
            \o chronological(S \ {first})

get_stories_for_task(task_gid, fetch_ok) ==
    IF fetch_ok
    THEN chronological({x \in Stories : StoryTask[x] = task_gid /\ posted[x] # NotPosted})
    ELSE <<>>

\* The work items whose comments get_unanswered_mentions asks for: none
\* when no monitored name resolved, since it returns before
\* get_tasks_modified_since.
stories_asked_for(monitored_user_names, directory, tasks) ==
    IF monitored_gids_from(monitored_user_names, 1, directory) = <<>>
    THEN {}
    ELSE Range(tasks)

FreshRun(f) ==
    [directory |-> {}, fetched |-> {}, fetch_calls |-> {}, read_failed |-> FALSE,
     collab_failed |-> FALSE,
     task_created |-> FALSE, writes |-> 0, write_failed |-> FALSE,
     mark_result |-> "none", ended_early |-> FALSE, subtasked |-> {},
     file_at_start |-> f, step_failed |-> FALSE, unanswered_mentions |-> <<>>]

\* The stories the API returns for each work item; with untimed, every
\* fetched work item also holds a story that carries no created_at.
stories_returned(fetched, untimed) ==
    [t \in TaskSet |->
        get_stories_for_task(t, t \in fetched)
        \o (IF untimed /\ t \in fetched
            THEN <<[gid |-> NoGid, created_at |-> NoTime,
                    author_gid |-> Alice, html_text |-> <<>>]>>
            ELSE <<>>)]

\* Where run_daily_brief continues after an exception of Step 4.5 that
\* reaches `except Exception` of the step: at Step 5, the report; it does
\* not leave the run.
after_step_exception_ends_run == "idle"

after_step_exception == "report"

\* The task creator handed every drafted mention.
select_all_with_drafts(unanswered_mentions, new) == unanswered_mentions

\* new_mentions_with_drafts: the drafted mentions whose identifier is the
\* identifier of a new mention.
select_new_with_drafts(unanswered_mentions, new) ==
    LET new_mention_ids == {new[k].mention_story_gid : k \in 1..Len(new)}
    IN SelectSeq(unanswered_mentions,
                 LAMBDA m : m.mention_story_gid \in new_mention_ids)

InitCoordinator ==
    /\ now = 0
    /\ posted = [x \in Stories |-> NotPosted]
    /\ file = MissingFile
    /\ pc = "idle"
    /\ all_unanswered = <<>>
    /\ new_mentions_for_task = <<>>
    /\ new_mentions_with_drafts = <<>>
    /\ write_data = MissingFile
    /\ run = FreshRun(MissingFile)
    /\ ever_marked = {}
    /\ pending = {}

\* An hour passes between two runs.
Tick ==
    /\ pc = "idle"
    /\ now < MaxTime
    /\ now' = now + 1
    /\ UNCHANGED <<rvars, lvars, pvars, posted, file, pc, all_unanswered, new_mentions_for_task,
                   new_mentions_with_drafts, write_data, run, ever_marked,
                   pending>>

\* Somebody posts one of the comments.
Post ==
    /\ pc = "idle"
    /\ \E x \in Stories :
          /\ posted[x] = NotPosted
          /\ posted' = [posted EXCEPT ![x] = now]
    /\ UNCHANGED <<rvars, lvars, pvars, now, file, pc, all_unanswered, new_mentions_for_task,
                   new_mentions_with_drafts, write_data, run, ever_marked,
                   pending>>

\* run_daily_brief reaches Step 4.5 and calls get_unanswered_mentions.
\* directory: the monitored names the user lookup resolves; fetched: the
\* work items whose comments the stories API returns; untimed: a story
\* without created_at is among them, on which the pass raises, and the
\* handler of the step leaves unanswered_mentions empty; the run has no
\* candidate, and those an earlier run left behind stay pending.
StartRun ==
    /\ pc = "idle"
    /\ \E directory \in SUBSET Range(MONITORED_USER_NAMES),
          fetched \in SUBSET TaskSet, untimed \in BOOLEAN :
          IF get_unanswered_mentions_raises(MONITORED_USER_NAMES, directory, Tasks,
                                            stories_returned(fetched, untimed))
          THEN /\ all_unanswered' = <<>>
               /\ run' = [FreshRun(file) EXCEPT !.step_failed = TRUE,
                                                !.collab_failed = TRUE,
                                                !.ended_early = run.ended_early]
               /\ pc' = after_step_exception
          ELSE /\ all_unanswered' =
                     get_unanswered_mentions(
                         MONITORED_USER_NAMES, directory, Tasks,
                         [t \in TaskSet |-> get_stories_for_task(t, t \in fetched)],
                         now - LookbackHours)
               /\ run' = [FreshRun(file) EXCEPT
                             !.directory = directory,
                             !.fetched = fetched,
                             !.fetch_calls = stories_asked_for(MONITORED_USER_NAMES,
                                                               directory, Tasks),
                             !.collab_failed = (directory # Range(MONITORED_USER_NAMES)
                                                \/ fetched # TaskSet)]
               /\ pc' = "filter"
    /\ UNCHANGED <<rvars, lvars, pvars, now, posted, file, new_mentions_for_task,
                   new_mentions_with_drafts, write_data, ever_marked,
                   pending>>

\* `if all_unanswered:` filter_new_mentions, batch_draft_responses (which
\* returns the list it was given) and the selection of the new mentions.
\* dir_ok: _ensure_data_dir, which load_processed_mentions calls outside
\* its try block, finds or creates the data directory; when os.makedirs
\* raises, filter_new_mentions raises and the handler of the step empties
\* unanswered_mentions: the run ends before mark_mentions_as_processed.
FilterAndDraft ==
    /\ pc = "filter"
    /\ IF all_unanswered = <<>>
       THEN /\ pc' = "report"
            /\ UNCHANGED <<new_mentions_for_task, new_mentions_with_drafts, run>>
       ELSE \E read_ok \in {TRUE, file.state # "valid"}, draft_ok \in BOOLEAN,
               dir_ok \in {TRUE, file.state # "missing"} :
              IF ~dir_ok
              THEN /\ run' = [run EXCEPT !.step_failed = TRUE,
                                         !.collab_failed = TRUE,
                                         !.ended_early = TRUE]
                   /\ pc' = after_step_exception
                   /\ UNCHANGED <<new_mentions_for_task, new_mentions_with_drafts>>
              ELSE
              LET new == filter_new_mentions(all_unanswered,
                                             load_processed_mentions(file, read_ok))
                  unanswered_mentions == all_unanswered
              IN /\ new_mentions_for_task' = new
                 /\ new_mentions_with_drafts' =
                       select_new_with_drafts(unanswered_mentions, new)
                 /\ run' = [run EXCEPT !.collab_failed = @ \/ ~draft_ok,
                                       !.read_failed = ~read_ok,
                                       !.unanswered_mentions = unanswered_mentions]
                 /\ pc' = IF new # <<>> THEN "create" ELSE "report"
    /\ UNCHANGED <<rvars, lvars, pvars, now, posted, file, all_unanswered, write_data, ever_marked,
                   pending>>

\* The ledger marked whether or not the parent task was created.
CreateTask_marks_anyway ==
    /\ pc = "create"
    /\ \/ /\ pc' = "mark"
          /\ run' = [run EXCEPT !.collab_failed = TRUE]
          /\ UNCHANGED pending
       \/ \E created \in SUBSET (1..Len(new_mentions_with_drafts)) :
            /\ run' = [run EXCEPT
                          !.task_created = TRUE,
                          !.subtasked =
                              {new_mentions_with_drafts[k].mention_story_gid : k \in created}]
            /\ pc' = "mark"
            /\ UNCHANGED pending
    /\ UNCHANGED <<rvars, lvars, pvars, now, posted, file, all_unanswered, new_mentions_for_task,
                   new_mentions_with_drafts, write_data, ever_marked>>

\* create_respond_to_mentions_task: the parent task is created or the call
\* raises; each subtask is created or its failure is logged there.
\* run.collab_failed records the failures of the user lookup, of the
\* comment fetch, of the drafting and of the parent task's creation.
CreateTask ==
    /\ pc = "create"
    /\ \/ /\ pc' = "report"
          /\ run' = [run EXCEPT !.collab_failed = TRUE, !.ended_early = TRUE]
          /\ pending' = Range(new_mentions_for_task)
       \/ \E created \in SUBSET (1..Len(new_mentions_with_drafts)) :
            /\ run' = [run EXCEPT
                          !.task_created = TRUE,
                          !.subtasked =
                              {new_mentions_with_drafts[k].mention_story_gid : k \in created}]
            /\ pc' = "mark"
            /\ UNCHANGED pending
    /\ UNCHANGED <<rvars, lvars, pvars, now, posted, file, all_unanswered, new_mentions_for_task,
                   new_mentions_with_drafts, write_data, ever_marked>>

\* What mark_mentions_as_processed does when the write of the file failed.
mark_result_after(write_ok) ==
    IF write_ok \/ save_exception_becomes = "logged" THEN "returned" ELSE "raised"

\* mark_mentions_as_processed up to open(TRACKER_FILE, 'w'), which empties
\* the file or raises.
MarkOpen ==
    /\ pc = "mark"
    /\ LET mention_ids == ids_of_mentions(new_mentions_with_drafts) IN
       IF mention_ids = {}
       THEN /\ pc' = "report"
            /\ run' = [run EXCEPT !.mark_result = "returned"]
            /\ UNCHANGED <<file, write_data, ever_marked>>
       ELSE \E read_ok \in {TRUE, file.state # "valid"}, open_ok \in BOOLEAN :
              LET existing_data == load_processed_mentions(file, read_ok) IN
              IF open_ok
              THEN /\ file' = TruncatedFile
                   /\ write_data' = save_data(mention_ids, existing_data, now)
                   /\ run' = [run EXCEPT !.writes = @ + 1]
                   /\ pc' = "dump"
                   /\ UNCHANGED ever_marked
              ELSE /\ run' = [run EXCEPT !.write_failed = TRUE,
                                         !.mark_result = mark_result_after(FALSE)]
                   /\ ever_marked' = IF mark_result_after(FALSE) = "returned"
                                     THEN ever_marked \cup mention_ids
                                     ELSE ever_marked
                   /\ pc' = "report"
                   /\ UNCHANGED <<file, write_data>>
    /\ UNCHANGED <<rvars, lvars, pvars, now, posted, all_unanswered, new_mentions_for_task,
                   new_mentions_with_drafts, pending>>

\* json.dump into the opened file: it completes, or raises part-way.
MarkDump ==
    /\ pc = "dump"
    /\ \E dump_ok \in BOOLEAN :
          /\ file' = IF dump_ok THEN write_data ELSE file
          /\ run' = [run EXCEPT !.write_failed = ~dump_ok,
                                !.mark_result = mark_result_after(dump_ok)]
          /\ ever_marked' = IF mark_result_after(dump_ok) = "returned"
                            THEN ever_marked \cup ids_of_mentions(new_mentions_with_drafts)
                            ELSE ever_marked
    /\ pc' = "report"
    /\ write_data' = MissingFile
    /\ UNCHANGED <<rvars, lvars, pvars, now, posted, all_unanswered, new_mentions_for_task,
                   new_mentions_with_drafts, pending>>

\* Step 5: the report is generated and sent, and the run ends.
Report ==
    /\ pc = "report"
    /\ pc' = "idle"
    /\ all_unanswered' = <<>>
    /\ new_mentions_for_task' = <<>>
    /\ new_mentions_with_drafts' = <<>>
    /\ run' = [FreshRun(file) EXCEPT !.ended_early = run.ended_early]
    /\ pending' = IF run.ended_early THEN pending ELSE {}
    /\ UNCHANGED <<rvars, lvars, pvars, now, posted, file, write_data, ever_marked>>

\* The process stops in the middle of a run.
Crash ==
    /\ pc \in {"filter", "create", "mark", "dump", "report"}
    /\ pc' = "idle"
    /\ all_unanswered' = <<>>
    /\ new_mentions_for_task' = <<>>
    /\ new_mentions_with_drafts' = <<>>
    /\ write_data' = MissingFile
    /\ LET early == pc \in {"create", "mark"} \/ (pc = "report" /\ run.ended_early)
       IN /\ run' = [FreshRun(file) EXCEPT
                        !.ended_early = early,
                        !.file_at_start = IF early THEN run.file_at_start ELSE file]
          /\ pending' = IF pc \in {"create", "mark"} THEN Range(new_mentions_for_task)
                        ELSE IF pc = "filter" \/ early THEN pending
                        ELSE {}
    /\ UNCHANGED <<rvars, lvars, pvars, now, posted, file, ever_marked>>

Init ==
    /\ InitCoordinator
    /\ r_pc = "off"
    /\ r_comments = <<>>
    /\ r_out = <<>>
    /\ InitLedger
    /\ InitRace

Next ==
    \/ Tick
    \/ Post
    \/ StartRun
    \/ FilterAndDraft
    \/ CreateTask
    \/ MarkOpen
    \/ MarkDump
    \/ Report
    \/ Crash

Spec == Init /\ [][Next]_vars

(***************************************************************************)
(* Properties of the ledger and of the coordinator's runs.                 *)
(***************************************************************************)
\* The identifiers a reader of the tracker file finds in it.
PersistedIds(f) == IF f.state = "valid" THEN f.processed_ids ELSE {}

GidsOf(events) == {e.mention_story_gid : e \in events}

\* C1: when the write of the ledger fails, mark_mentions_as_processed does
\* not return normally: the failure reaches its caller.
C1_WriteFailurePropagates ==
    run.write_failed => run.mark_result = "raised"

\* C2: no step of a process removes an identifier from the persisted set,
\* failing reads and failing writes included.
C2_NeverShrinks ==
    [][PersistedIds(file) \subseteq PersistedIds(file')]_vars

\* C3: whenever the tracker file changes, its new content is the complete
\* updated record (the old identifiers and the marked ones); it is never
\* left empty or cut off.
C3_AtomicRewrite ==
    [][file' # file =>
          /\ file'.state = "valid"
          /\ file'.processed_ids =
                PersistedIds(file) \cup ids_of_mentions(new_mentions_with_drafts)]_vars

\* C7: a run adds an identifier to the ledger only if it created the
\* subtask of that mention.
C7_OnlySubtaskedMarked ==
    pc # "idle" =>
        (PersistedIds(file) \ PersistedIds(run.file_at_start)) \subseteq run.subtasked

\* C8: once mark_mentions_as_processed(X) has returned, filter_new_mentions(X)
\* is empty, and no identifier it was given is returned as new by a later
\* filter_new_mentions.
C8_RoundTrip ==
    /\ (pc = "report" /\ run.mark_result = "returned") =>
          filter_new_mentions(new_mentions_with_drafts,
                              load_processed_mentions(file, TRUE)) = <<>>
    /\ pc = "create" => GidsOf(Range(new_mentions_for_task)) \cap ever_marked = {}

\* C9: in one run the ledger is written at most once and only after the
\* task creation returned a task, and any failure of a collaborator call
\* leaves the ledger as it was before the run.
C9_AnyFailureLeavesLedger ==
    /\ run.writes <= 1
    /\ run.writes > 0 => run.task_created
    /\ run.collab_failed => file = run.file_at_start

\* C9, amended: in one run the ledger is written at most once and only
\* after create_respond_to_mentions_task returned a task; a run in which it
\* returned none (it raised, was not reached or was not called) leaves the
\* ledger as it was before the run.
C9_WrittenOnceAfterTask ==
    /\ run.writes <= 1
    /\ run.writes > 0 => run.task_created
    /\ (pc # "idle" /\ ~run.task_created) => file = run.file_at_start
    /\ run.ended_early => file = run.file_at_start

\* The parent task could not be created for new mentions, and the ledger,
\* which holds identifiers, is as it was.
C9_Witness ==
    /\ pc = "report"
    /\ run.ended_early /\ ~run.task_created
    /\ new_mentions_for_task # <<>>
    /\ file.state = "valid" /\ file.processed_ids # {}
    /\ file = run.file_at_start

\* The comment of event e has no later comment of the mentioned user in its
\* work item, and lies in the lookback window, as the workspace is now.
StillUnanswered(e) ==
    ~\E x \in Stories :
        /\ StoryTask[x] = e.task_gid
        /\ StoryKind[x].author_gid = e.mentioned_user_gid
        /\ posted[x] # NotPosted
        /\ posted[x] > e.comment_created_at

StillInWindow(e) == e.comment_created_at >= now - LookbackHours

\* The current run resolved the user of e and fetched the comments of its
\* work item.
SeenByRun(e) ==
    /\ \E n \in run.directory : GidOfName[n] = e.mentioned_user_gid
    /\ e.task_gid \in run.fetched

AfterFilter == pc \in {"create", "mark", "dump"} \/ (pc = "report" /\ all_unanswered # <<>>)

PassWith(directory, fetched) ==
    get_unanswered_mentions(MONITORED_USER_NAMES, directory, Tasks,
                            [t \in TaskSet |-> get_stories_for_task(t, t \in fetched)],
                            now - LookbackHours)

\* C18: a work item whose comments cannot be fetched contributes no event,
\* and every other work item contributes exactly the events it contributes
\* when no fetch fails.
C18_FetchFailureSkipsOneItem ==
    pc = "filter" =>
        all_unanswered =
            SelectSeq(PassWith(run.directory, TaskSet),
                      LAMBDA e : e.task_gid \in run.fetched)

\* The fetch of W1, which holds an unanswered mention, failed and the
\* mentions of W2 are returned.
C18_Witness ==
    /\ pc = "filter"
    /\ run.fetched = {"W2"}
    /\ \E e \in Range(PassWith(run.directory, TaskSet)) : e.task_gid = "W1"
    /\ \E e \in Range(all_unanswered) : e.task_gid = "W2"

\* C19: a monitored name that does not resolve is left out without ending
\* the pass: the output holds exactly the events of the names that did
\* resolve; when none resolves the pass returns nothing and asks for the
\* comments of no work item.
C19_UnresolvedIdentityExcluded ==
    pc = "filter" =>
        /\ all_unanswered =
              SelectSeq(PassWith(Range(MONITORED_USER_NAMES), run.fetched),
                        LAMBDA e : \E n \in run.directory :
                                      GidOfName[n] = e.mentioned_user_gid)
        /\ run.directory = {} => (all_unanswered = <<>> /\ run.fetch_calls = {})
        /\ run.directory # {} => run.fetch_calls = TaskSet

\* The first monitored name did not resolve, and the mentions of the
\* second are returned without those of the first.
C19_Witness ==
    /\ pc = "filter"
    /\ run.directory = {"Carol"}
    /\ all_unanswered # <<>>
    /\ \E e \in Range(PassWith(Range(MONITORED_USER_NAMES), run.fetched)) :
          e.mentioned_user_gid = Bob

\* The list filter_new_mentions returned in this run.
ReturnedByFilter ==
    filter_new_mentions(all_unanswered,
                        load_processed_mentions(run.file_at_start, ~run.read_failed))

C26_KeyedByCommentAlone ==
    (pc \in {"create", "mark", "dump", "report"}
         /\ ~run.step_failed /\ ~run.read_failed) =>
        \A e \in Range(all_unanswered) :
            e.mention_story_gid \in PersistedIds(run.file_at_start)
                => \A m \in Range(new_mentions_for_task) :
                      m.mention_story_gid # e.mention_story_gid

\* Comment 3, which mentions Carol and Bob, is in the ledger; a run finds
\* Carol's mention of it unanswered and holds it for not new.
C26_Witness ==
    /\ pc = "report"
    /\ ~run.step_failed /\ ~run.read_failed
    /\ 3 \in PersistedIds(run.file_at_start)
    /\ \E e \in Range(all_unanswered) :
          e.mention_story_gid = 3 /\ e.mentioned_user_gid = Carol
    /\ new_mentions_for_task = <<>>

\* C30: an exception of Step 4.5 ends the step and not the run: the run
\* is at Step 5 with an empty list for the report when the exception
\* reached the handler of the step, and with the drafted list when only
\* the creation of the task failed; the report is then sent.
C30_StepFailureKeepsReport ==
    /\ run.step_failed =>
          /\ pc = "report"
          /\ run.unanswered_mentions = <<>>
          /\ new_mentions_with_drafts = <<>>
    /\ (pc \notin {"idle", "report"}) => ~run.ended_early
    /\ (pc = "report" /\ run.ended_early /\ ~run.step_failed) =>
          run.unanswered_mentions = all_unanswered
    /\ pc = "report" => ENABLED Report

\* filter_new_mentions raised after unanswered mentions were found.
C30_Witness ==
    /\ pc = "report"
    /\ run.step_failed
    /\ all_unanswered # <<>>
    /\ run.unanswered_mentions = <<>>

(***************************************************************************)
(* The reconciler on its own, over every timeline of one work item.        *)
(***************************************************************************)
\* The one work item of the reconciler specification, and its clock.
TaskW == "W"
r_now == MaxTime
r_since == r_now - LookbackHours

InitRecon ==
    /\ InitCoordinator
    /\ r_pc = "input"
    /\ r_comments = <<>>
    /\ r_out = <<>>
    /\ InitLedger
    /\ InitRace

\* Somebody posts a comment on the work item; its gid is its position in
\* the list the stories API returns, in whatever order that is.
PostComment ==
    /\ r_pc = "input"
    /\ Len(r_comments) < MaxComments
    /\ \E c \in {[author_gid |-> kind.author_gid, html_text |-> kind.html_text,
                    created_at |-> created_at] :
                        kind \in CommentKinds, created_at \in CreatedAts}
                  \cup {UntimedComment} :
          r_comments' = Append(r_comments,
                               [gid |-> Len(r_comments) + 1,
                                created_at |-> c.created_at,
                                author_gid |-> c.author_gid,
                                html_text |-> c.html_text])
    /\ UNCHANGED <<r_pc, r_out>>
    /\ UNCHANGED <<cvars, lvars, pvars>>

\* The pass over the work item: it returns its list, or raises.
Reconcile ==
    /\ r_pc = "input"
    /\ IF get_unanswered_mentions_raises(MONITORED_USER_NAMES, {"Bob", "Carol"},
                                         <<TaskW>>, [t \in {TaskW} |-> r_comments])
       THEN r_pc' = "raised" /\ r_out' = <<>>
       ELSE /\ r_out' = get_unanswered_mentions(
                            MONITORED_USER_NAMES, {"Bob", "Carol"}, <<TaskW>>,
                            [t \in {TaskW} |-> r_comments], r_since)
            /\ r_pc' = "done"
    /\ UNCHANGED r_comments
    /\ UNCHANGED <<cvars, lvars, pvars>>

NextRecon == PostComment \/ Reconcile

SpecRecon == InitRecon /\ [][NextRecon]_vars

(***************************************************************************)
(* The ledger's functions on their own: one process calls                  *)
(* filter_new_mentions and mark_mentions_as_processed on lists of          *)
(* mentions, while the clock advances and the tracker file is deleted,     *)
(* overwritten or made unreadable from outside.  l_call records the call   *)
(* just made, until something else happens: its argument, the record it    *)
(* loaded, what it returned, the file before it and how its write ended.   *)
(***************************************************************************)
MaxMentions == 2
LedgerGids == {1, 2}

\* The mentions handed to the ledger; NoGid: no mention_story_gid.
Candidates ==
    {c \in [mention_story_gid : {NoGid} \cup LedgerGids,
            mentioned_user_gid : {Bob, Carol}] :
        c.mentioned_user_gid = Carol => c.mention_story_gid = 2}

runvars == <<posted, pc, all_unanswered, new_mentions_for_task,
             new_mentions_with_drafts, write_data, run, ever_marked, pending>>

AddCandidate ==
    /\ Len(l_in) < MaxMentions
    /\ \E c \in Candidates : l_in' = Append(l_in, c)
    /\ l_call' = NoCall
    /\ UNCHANGED <<rvars, pvars, runvars, now, file, l_readable>>

ClearCandidates ==
    /\ l_in # <<>>
    /\ l_in' = <<>>
    /\ l_call' = NoCall
    /\ UNCHANGED <<rvars, pvars, runvars, now, file, l_readable>>

LedgerTick ==
    /\ now < MaxTime
    /\ now' = now + 1
    /\ l_call' = NoCall
    /\ UNCHANGED <<rvars, pvars, runvars, file, l_in, l_readable>>

\* The tracker file is deleted, cut off, or replaced by JSON of another
\* shape.
Damage ==
    /\ \E f \in {MissingFile, TruncatedFile, ArrayFile}
                 \cup {[file EXCEPT !.state = "keyed"]} :
          /\ f # file
          /\ f.state = "keyed" => file.state = "valid"
          /\ file' = f
          /\ l_readable' = (f.state = "missing" \/ l_readable)
    /\ l_call' = NoCall
    /\ UNCHANGED <<rvars, pvars, runvars, now, l_in>>

\* The permissions of the tracker file change: open(TRACKER_FILE, 'r')
\* starts or stops raising.
Chmod ==
    /\ file.state # "missing"
    /\ l_readable' = ~l_readable
    /\ l_call' = NoCall
    /\ UNCHANGED <<rvars, pvars, runvars, now, file, l_in>>

\* filter_new_mentions(l_in); `twice` is filter_new_mentions of its result,
\* `prev` holds the result of the call just before when that was
\* filter_new_mentions(l_in) too.
FilterNew ==
    /\ LET tracker_data == load_processed_mentions(file, l_readable)
           new_mentions == filter_new_mentions(l_in, tracker_data)
       IN l_call' = [op |-> "filter", arg |-> l_in, loaded |-> tracker_data,
                     out |-> new_mentions,
                     twice |-> filter_new_mentions(
                                   new_mentions,
                                   load_processed_mentions(file, l_readable)),
                     prev |-> IF l_call.op = "filter" THEN <<l_call.out>> ELSE <<>>,
                     before |-> file, wrote |-> "no"]
    /\ UNCHANGED <<rvars, pvars, runvars, now, file, l_in, l_readable>>

\* mark_mentions_as_processed(l_in): nothing when no identifier is given;
\* otherwise save_processed_mentions, whose write completes, fails at
\* open() or fails inside json.dump.
MarkProcessed ==
    /\ LET mention_ids == ids_of_mentions(l_in) IN
       IF mention_ids = {}
       THEN /\ l_call' = [NoCall EXCEPT !.op = "mark", !.arg = l_in, !.before = file]
            /\ UNCHANGED file
       ELSE \E wrote \in {"written", "open_failed", "dump_failed"} :
              LET existing_data == load_processed_mentions(file, l_readable)
              IN /\ file' = IF wrote = "written"
                               THEN save_data(mention_ids, existing_data, now)
                            ELSE IF wrote = "dump_failed" THEN TruncatedFile
                            ELSE file
                 /\ l_call' = [NoCall EXCEPT !.op = "mark", !.arg = l_in,
                                             !.loaded = existing_data,
                                             !.before = file, !.wrote = wrote]
    /\ UNCHANGED <<rvars, pvars, runvars, now, l_in, l_readable>>

NextLedger ==
    \/ AddCandidate
    \/ ClearCandidates
    \/ LedgerTick
    \/ Damage
    \/ Chmod
    \/ FilterNew
    \/ MarkProcessed

SpecLedger == Init /\ [][NextLedger]_vars

(***************************************************************************)
(* Properties of the ledger's functions.                                   *)
(***************************************************************************)
\* The identifiers the tracker file holds, in either shape.
HeldIds(f) == IF f.state \in {"valid", "keyed"} THEN f.processed_ids ELSE {}

\* C12: load_processed_mentions returns the empty record (no identifier,
\* count 0) whenever the tracker file is missing, unreadable or holds
\* anything but a complete record.
C12_LoadEmptyUnlessValid ==
    (l_call.op # "none" /\ (l_call.before.state # "valid" \/ ~l_readable)) =>
        l_call.loaded = EmptyRecord

\* `out` is `mentions` restricted to the set `places` of its places, in
\* the order of `mentions`.
IsRestriction(out, mentions, places) ==
    /\ Len(out) = Cardinality(places)
    /\ \A j \in 1..Len(out) :
          out[j] = mentions[CHOOSE k \in places :
                               Cardinality({i \in places : i <= k}) = j]

\* C13: filter_new_mentions returns exactly the candidates whose identifier
\* is absent from the persisted ledger, in the order of the input.
C13_FilterExactlyAbsent ==
    l_call.op = "filter" =>
        IsRestriction(l_call.out, l_call.arg,
                      {k \in 1..Len(l_call.arg) :
                          l_call.arg[k].mention_story_gid
                              \notin PersistedIds(l_call.before)})

\* C13, amended: filter_new_mentions returns exactly the candidates that
\* carry an identifier absent from the record load_processed_mentions
\* returned, in the order of the input.
C13_FilterExactlyAbsentFromLoaded ==
    l_call.op = "filter" =>
        IsRestriction(l_call.out, l_call.arg,
                      {k \in 1..Len(l_call.arg) :
                          /\ l_call.arg[k].mention_story_gid # NoGid
                          /\ l_call.arg[k].mention_story_gid
                                \notin l_call.loaded.processed_ids})

\* The ledger holds the identifier of the second of two candidates, and
\* the first alone is returned.
C13_Witness ==
    /\ l_call.op = "filter"
    /\ l_call.before.state = "valid" /\ l_call.before.processed_ids = {2}
    /\ Len(l_call.arg) = 2
    /\ l_call.arg[1].mention_story_gid = 1 /\ l_call.arg[2].mention_story_gid = 2
    /\ l_call.out = <<l_call.arg[1]>>

C15_MarkUnions ==
    (l_call.op = "mark" /\ l_call.wrote = "written") =>
        /\ file.state = "valid"
        /\ file.processed_ids =
              HeldIds(l_call.before) \cup
                  ({l_call.arg[k].mention_story_gid : k \in 1..Len(l_call.arg)} \ {NoGid})
        /\ file.total_processed = Cardinality(file.processed_ids)

\* C16: mark_mentions_as_processed of a list without any identifier (the
\* empty list, or mentions that carry none) writes nothing: the tracker
\* file, its count and its last_updated are as before.
C16_MarkNothingIsNoOp ==
    (/\ l_call.op = "mark"
     /\ \A k \in 1..Len(l_call.arg) : l_call.arg[k].mention_story_gid = NoGid) =>
        /\ file = l_call.before
        /\ l_call.wrote = "no"

\* Mentions without identifier were marked an hour after the ledger was
\* last written.
C16_Witness ==
    /\ l_call.op = "mark"
    /\ l_call.arg # <<>>
    /\ \A k \in 1..Len(l_call.arg) : l_call.arg[k].mention_story_gid = NoGid
    /\ file.state = "valid" /\ file.processed_ids # {} /\ file.last_updated < now
    /\ file = l_call.before

\* C29: a mention without identifier is never among those
\* filter_new_mentions returns, whatever the tracker file holds, and
\* mark_mentions_as_processed never writes its missing identifier into
\* the file: a call given such mentions only leaves the file as it was.
C29_UnidentifiedNeverNewNeverMarked ==
    /\ l_call.op = "filter" =>
          \A k \in 1..Len(l_call.out) : l_call.out[k].mention_story_gid # NoGid
    /\ l_call.op = "mark" =>
          /\ NoGid \in HeldIds(file) => NoGid \in HeldIds(l_call.before)
          /\ (\A k \in 1..Len(l_call.arg) : l_call.arg[k].mention_story_gid = NoGid)
                => file = l_call.before

\* filter_new_mentions was given a mention without identifier next to one
\* that is new, and returned the second only.
C29_Witness ==
    /\ l_call.op = "filter"
    /\ Len(l_call.arg) = 2
    /\ l_call.arg[1].mention_story_gid = NoGid
    /\ l_call.arg[2].mention_story_gid # NoGid
    /\ l_call.out = <<l_call.arg[2]>>

(***************************************************************************)
(* Concurrent mark_mentions_as_processed: each process runs the steps of   *)
(* save_processed_mentions (load, open for writing, dump) on the one       *)
(* tracker file, in any interleaving.                                      *)
(***************************************************************************)
\* Process p waits until no other process is inside save_processed_mentions.
RaceLoad_exclusive(p) ==
    /\ p_pc[p] = "idle"
    /\ \A q \in Procs \ {p} : p_pc[q] \in {"idle", "done"}
    /\ \E mention_ids \in (SUBSET LedgerGids) \ {{}} :
          p_arg' = [p_arg EXCEPT ![p] = mention_ids]
    /\ p_existing' = [p_existing EXCEPT ![p] = load_processed_mentions(file, TRUE)]
    /\ p_pc' = [p_pc EXCEPT ![p] = "loaded"]
    /\ UNCHANGED <<rvars, lvars, runvars, now, file>>

\* mark_mentions_as_processed(mentions) with identifiers, up to
\* existing_data = load_processed_mentions().
RaceLoad(p) ==
    /\ p_pc[p] = "idle"
    /\ \E mention_ids \in (SUBSET LedgerGids) \ {{}} :
          p_arg' = [p_arg EXCEPT ![p] = mention_ids]
    /\ p_existing' = [p_existing EXCEPT ![p] = load_processed_mentions(file, TRUE)]
    /\ p_pc' = [p_pc EXCEPT ![p] = "loaded"]
    /\ UNCHANGED <<rvars, lvars, runvars, now, file>>

\* open(TRACKER_FILE, 'w') empties the file.
RaceOpen(p) ==
    /\ p_pc[p] = "loaded"
    /\ file' = TruncatedFile
    /\ p_pc' = [p_pc EXCEPT ![p] = "opened"]
    /\ UNCHANGED <<rvars, lvars, runvars, now, p_arg, p_existing>>

\* json.dump writes the record from the start of the file.  When another
\* process wrote its record since this one emptied the file, the file
\* ends holding this record, or this record followed by the rest of the
\* other, which does not parse.
RaceDump(p) ==
    /\ p_pc[p] = "opened"
    /\ \E mixed \in {FALSE, file.state = "valid"} :
          file' = IF mixed THEN TruncatedFile
                  ELSE save_data(p_arg[p], p_existing[p], now)
    /\ p_pc' = [p_pc EXCEPT ![p] = "done"]
    /\ UNCHANGED <<rvars, lvars, runvars, now, p_arg, p_existing>>

\* mark_mentions_as_processed returns.
RaceReturn(p) ==
    /\ p_pc[p] = "done"
    /\ p_pc' = [p_pc EXCEPT ![p] = "idle"]
    /\ p_arg' = [p_arg EXCEPT ![p] = {}]
    /\ p_existing' = [p_existing EXCEPT ![p] = EmptyRecord]
    /\ UNCHANGED <<rvars, lvars, runvars, now, file>>

NextRace ==
    \/ \E p \in Procs : RaceLoad(p)
    \/ \E p \in Procs : RaceOpen(p)
    \/ \E p \in Procs : RaceDump(p)
    \/ \E p \in Procs : RaceReturn(p)

SpecRace == Init /\ [][NextRace]_vars

\* C20: no lock orders the processes: whatever step of the
\* read-modify-write another process has reached, a process can take its
\* own next step, so that one can read the ledger between the read and the
\* write of another.
C20_NoMutualExclusion ==
    \A p \in Procs : \A q \in Procs \ {p} :
        p_pc[p] \in {"loaded", "opened"} =>
            /\ p_pc[q] = "idle" => ENABLED RaceLoad(q)
            /\ p_pc[q] = "loaded" => ENABLED RaceOpen(q)
            /\ p_pc[q] = "opened" => ENABLED RaceDump(q)

\* Two processes have both completed mark_mentions_as_processed, the file
\* holds a complete record, and an identifier one of them marked is not
\* in it.
C20_Witness ==
    /\ \A p \in Procs : p_pc[p] = "done"
    /\ file.state = "valid"
    /\ \E p \in Procs : ~(p_arg[p] \subseteq file.processed_ids)

(***************************************************************************)
(* The reconciler over two work items, with a lookback that covers the     *)
(* whole timeline: comments are posted on either work item as the hours    *)
(* pass and listed oldest first, as the stories API lists them.            *)
(***************************************************************************)
ItemKinds ==
    { [author_gid |-> Alice, html_text |-> <<Link("user", Bob)>>],
      [author_gid |-> Bob, html_text |-> <<>>],
      [author_gid |-> Alice,
       html_text |-> <<Link("user", Carol), Link("user", Bob), Link("user", Bob)>>] }

items_since == r_now - MaxTime

\* What get_stories_for_task returns for each work item.
StoriesOf(comments) ==
    [t \in TaskSet |-> SelectSeq(comments, LAMBDA c : c.task_gid = t)]

InitItems ==
    /\ InitCoordinator
    /\ r_pc = "items"
    /\ r_comments = <<>>
    /\ r_out = <<>>
    /\ InitLedger
    /\ InitRace

PostItemComment ==
    /\ r_pc = "items"
    /\ Len(r_comments) < MaxComments
    /\ \E kind \in ItemKinds, created_at \in 0..MaxTime, task_gid \in TaskSet :
          /\ r_comments # <<>> => created_at >= r_comments[Len(r_comments)].created_at
          /\ r_comments' = Append(r_comments,
                               [gid |-> Len(r_comments) + 1,
                                task_gid |-> task_gid,
                                created_at |-> created_at,
                                author_gid |-> kind.author_gid,
                                html_text |-> kind.html_text])
    /\ UNCHANGED <<r_pc, r_out>>
    /\ UNCHANGED <<cvars, lvars, pvars>>

ReconcileItems ==
    /\ r_pc = "items"
    /\ r_out' = get_unanswered_mentions(MONITORED_USER_NAMES, {"Bob", "Carol"},
                                        Tasks, StoriesOf(r_comments), items_since)
    /\ r_pc' = "items_done"
    /\ UNCHANGED r_comments
    /\ UNCHANGED <<cvars, lvars, pvars>>

NextItems == PostItemComment \/ ReconcileItems

SpecItems == InitItems /\ [][NextItems]_vars

(***************************************************************************)
(* Properties of the reconciler, stated on the timeline itself.            *)
(***************************************************************************)
MonitoredGids == {Bob, Carol}

RComments == {r_comments[i] : i \in 1..Len(r_comments)}

\* c is written by somebody else and holds a decorated reference to u.
IsMentionOf(c, u) ==
    /\ c.author_gid # u
    /\ \E k \in 1..Len(c.html_text) :
          c.html_text[k].type = "user" /\ c.html_text[k].gid = u

\* The hours at which u commented on the work item.
ReplyTimes(u) ==
    {c.created_at : c \in {d \in RComments : d.author_gid = u /\ d.created_at # BadTime}}

InWindow(c) == c.created_at # BadTime /\ c.created_at >= r_since

\* The places of the output that report comment c for user u.
OutputPlaces(c, u) ==
    {k \in 1..Len(r_out) : r_out[k].mention_story_gid = c.gid
                             /\ r_out[k].mentioned_user_gid = u
                             /\ r_out[k].task_gid = TaskW}

InOutput(c, u) == OutputPlaces(c, u) # {}

\* C4: a mention of a monitored user is reported if and only if it lies in
\* the lookback window and the user has no comment, or no comment later than
\* the mention, in the work item; a reply at the mention's own hour does not
\* suppress it.
C4_UnansweredIff ==
    r_pc = "done" =>
        \A u \in MonitoredGids : \A c \in RComments :
            IsMentionOf(c, u) =>
                (InOutput(c, u) <=>
                    /\ InWindow(c)
                    /\ \/ ReplyTimes(u) = {}
                       \/ \A t \in ReplyTimes(u) : t <= c.created_at)

\* A reported mention with a reply of the user at the same hour.
C4_Witness ==
    /\ r_pc = "done"
    /\ \E c \in RComments :
          /\ IsMentionOf(c, Bob) /\ InWindow(c)
          /\ c.created_at \in ReplyTimes(Bob)
          /\ InOutput(c, Bob)
    /\ \E c \in RComments :
          IsMentionOf(c, Bob) /\ ~InWindow(c) /\ c.created_at # BadTime

\* C5: when the monitored user never posts, every comment that mentions the
\* user in decorated form inside the lookback window is reported exactly
\* once, however many references to the user it holds.
C5_ExactlyOnce ==
    r_pc = "done" =>
        \A u \in MonitoredGids : \A c \in RComments :
            (/\ \A d \in RComments : d.author_gid # u
             /\ IsMentionOf(c, u)
             /\ InWindow(c))
            => Cardinality(OutputPlaces(c, u)) = 1

\* C6: a comment of the monitored user strictly after a mention excludes
\* the mention, and with it every earlier mention of the user in the work
\* item; comments of the user strictly before a mention do not suppress it.
C6_ReplyAfterSuppresses ==
    r_pc = "done" =>
        \A u \in MonitoredGids : \A c \in RComments :
            (IsMentionOf(c, u) /\ c.created_at # BadTime) =>
                /\ (\E t \in ReplyTimes(u) : t > c.created_at) => ~InOutput(c, u)
                /\ (/\ InWindow(c)
                    /\ ReplyTimes(u) # {}
                    /\ \A t \in ReplyTimes(u) : t < c.created_at) => InOutput(c, u)

\* Two mentions inside the window, both excluded by one later reply.
C6_Witness ==
    /\ r_pc = "done"
    /\ \E c, d \in RComments :
          /\ c.gid # d.gid
          /\ IsMentionOf(c, Bob) /\ IsMentionOf(d, Bob)
          /\ InWindow(c) /\ InWindow(d)
          /\ \E t \in ReplyTimes(Bob) : t > c.created_at /\ t > d.created_at
          /\ ~InOutput(c, Bob) /\ ~InOutput(d, Bob)

\* C17: the reconciliation pass never raises to its caller: whatever the
\* collaborators return, comments with a missing or malformed creation
\* timestamp included, it ends by returning a list.
C17_PassNeverRaises ==
    r_pc # "raised"

\* C22: a comment written by a monitored user is never reported as a
\* mention of that user, even when it holds a decorated reference to the
\* user; it counts as the user's reply, so that no mention of the user
\* made before it is reported.
C22_OwnCommentIsReplyOnly ==
    r_pc = "done" =>
        \A u \in MonitoredGids : \A c \in RComments :
            c.author_gid = u =>
                /\ OutputPlaces(c, u) = {}
                /\ c.created_at # BadTime =>
                      \A d \in RComments :
                          (IsMentionOf(d, u) /\ d.created_at # BadTime
                           /\ d.created_at < c.created_at) => ~InOutput(d, u)

\* Bob's comment refers to Bob inside the window, after a mention of Bob
\* inside the window: neither is reported.
C22_Witness ==
    /\ r_pc = "done"
    /\ \E c, d \in RComments :
          /\ c.author_gid = Bob
          /\ \E k \in 1..Len(c.html_text) :
                c.html_text[k].type = "user" /\ c.html_text[k].gid = Bob
          /\ InWindow(c)
          /\ IsMentionOf(d, Bob) /\ InWindow(d) /\ d.created_at < c.created_at
          /\ OutputPlaces(c, Bob) = {} /\ ~InOutput(d, Bob)

\* A mention reported although the user commented before it.
C6_WitnessBefore ==
    /\ r_pc = "done"
    /\ \E c \in RComments :
          /\ IsMentionOf(c, Bob) /\ InWindow(c)
          /\ ReplyTimes(Bob) # {}
          /\ \A t \in ReplyTimes(Bob) : t < c.created_at
          /\ InOutput(c, Bob)

(***************************************************************************)
(* Properties of the reconciler over two work items.                       *)
(***************************************************************************)
\* The hours at which u commented on the work item of comment c.
RepliesNear(c, u) ==
    {d.created_at : d \in {e \in RComments : e.author_gid = u
                                              /\ e.task_gid = c.task_gid}}

\* The places of the output that report comment c of its work item for u.
ItemPlaces(c, u) ==
    {k \in 1..Len(r_out) : r_out[k].mention_story_gid = c.gid
                             /\ r_out[k].mentioned_user_gid = u
                             /\ r_out[k].task_gid = c.task_gid}

\* u has no comment later than c in the work item of c.
NoReplyAfter(c, u) == \A t \in RepliesNear(c, u) : t <= c.created_at

\* C21: a comment of another author that mentions several monitored users
\* yields exactly one event for each of them who has not replied after it,
\* each with the comment's identifier.
C21_OneEventPerIdentity ==
    r_pc = "items_done" =>
        \A c \in RComments : \A u \in MonitoredGids :
            (/\ IsMentionOf(c, u)
             /\ \E v \in MonitoredGids \ {u} : IsMentionOf(c, v)
             /\ NoReplyAfter(c, u))
            => Cardinality(ItemPlaces(c, u)) = 1

\* The three comments of the scenario, in one work item: Alice mentions
\* Bob, Bob comments later, Alice mentions Bob later still.
IsReplyScenario ==
    /\ Len(r_comments) = 3
    /\ \A k \in 1..3 : r_comments[k].task_gid = r_comments[1].task_gid
    /\ r_comments[1].author_gid = Alice
    /\ r_comments[1].html_text = <<Link("user", Bob)>>
    /\ r_comments[2].author_gid = Bob
    /\ r_comments[3].author_gid = Alice
    /\ r_comments[3].html_text = <<Link("user", Bob)>>
    /\ r_comments[1].created_at < r_comments[2].created_at
    /\ r_comments[2].created_at < r_comments[3].created_at

\* C23: in the scenario C1 (Alice mentions Bob), C2 (Bob, later), C3
\* (Alice mentions Bob, later still), all inside the lookback, the output
\* is exactly one event, for C3.
C23_ScenarioWithReply ==
    (r_pc = "items_done" /\ IsReplyScenario) =>
        /\ Len(r_out) = 1
        /\ r_out[1].mention_story_gid = r_comments[3].gid
        /\ r_out[1].mentioned_user_gid = Bob
        /\ r_out[1].task_gid = r_comments[3].task_gid

C23_Witness ==
    /\ r_pc = "items_done"
    /\ IsReplyScenario
    /\ Len(r_out) = 1
    /\ r_out[1].mention_story_gid = 3

\* The scenario without Bob's comment: two mentions of Bob by Alice in one
\* work item, at different hours.
IsNoReplyScenario ==
    /\ Len(r_comments) = 2
    /\ r_comments[1].task_gid = r_comments[2].task_gid
    /\ \A k \in 1..2 : /\ r_comments[k].author_gid = Alice
                         /\ r_comments[k].html_text = <<Link("user", Bob)>>
    /\ r_comments[1].created_at < r_comments[2].created_at

\* C24: when a user is mentioned in several comments of a work item and has
\* commented after none of them, every one of these comments is reported,
\* each under its own identifier; in the scenario without C2 the output is
\* two events, for C1 and for C3.
C24_EveryUnansweredMentionReported ==
    r_pc = "items_done" =>
        /\ \A u \in MonitoredGids : \A c, d \in RComments :
              (/\ c.gid # d.gid /\ c.task_gid = d.task_gid
               /\ IsMentionOf(c, u) /\ IsMentionOf(d, u)
               /\ NoReplyAfter(c, u) /\ NoReplyAfter(d, u))
              => /\ ItemPlaces(c, u) # {} /\ ItemPlaces(d, u) # {}
                 /\ ItemPlaces(c, u) \cap ItemPlaces(d, u) = {}
        /\ IsNoReplyScenario =>
              /\ Len(r_out) = 2
              /\ {r_out[k].mention_story_gid : k \in 1..2} = {1, 2}

C24_Witness ==
    /\ r_pc = "items_done"
    /\ IsNoReplyScenario
    /\ Len(r_out) = 2
    /\ r_out[1].mention_story_gid # r_out[2].mention_story_gid

\* The (work item, comment, user) triples of a list of events.
TriplesOf(events) ==
    {<<events[k].task_gid, events[k].mention_story_gid, events[k].mentioned_user_gid>> :
        k \in 1..Len(events)}

\* The comments listed in the order f.
Listed(f) == [k \in 1..Len(r_comments) |-> r_comments[f[k]]]

\* What the pass returns when the comments are listed in the order f.
PassListed(f) ==
    get_unanswered_mentions(MONITORED_USER_NAMES, {"Bob", "Carol"}, Tasks,
                            StoriesOf(Listed(f)), items_since)

\* C27: the set of (work item, comment, user) triples the pass returns is
\* the same for every order in which the comments are listed.
C27_OrderIndependent ==
    r_pc = "items_done" =>
        \A f \in Permutations(1..Len(r_comments)) :
            TriplesOf(PassListed(f)) = TriplesOf(r_out)

\* Bob commented before and after a mention of Bob, which is not
\* reported, and is not reported either when his two comments are listed
\* latest first and the mention after them.
C27_Witness ==
    /\ r_pc = "items_done"
    /\ Len(r_comments) = 3
    /\ \A k \in 1..3 : r_comments[k].task_gid = r_comments[1].task_gid
    /\ r_comments[1].author_gid = Bob /\ r_comments[3].author_gid = Bob
    /\ IsMentionOf(r_comments[2], Bob)
    /\ r_comments[1].created_at < r_comments[2].created_at
    /\ r_comments[2].created_at < r_comments[3].created_at
    /\ r_out = <<>>
    /\ PassListed(<<3, 1, 2>>) = <<>>

\* C28: a comment of monitored user A suppresses no mention of A in another
\* work item and no mention of another monitored user in its own work
\* item.
C28_SuppressionScoped ==
    r_pc = "items_done" =>
        \A a \in MonitoredGids : \A r, c \in RComments :
            (r.author_gid = a /\ r.created_at > c.created_at) =>
                /\ (/\ r.task_gid # c.task_gid
                    /\ IsMentionOf(c, a)
                    /\ NoReplyAfter(c, a)) => ItemPlaces(c, a) # {}
                /\ \A b \in MonitoredGids \ {a} :
                      (/\ r.task_gid = c.task_gid
                       /\ IsMentionOf(c, b)
                       /\ NoReplyAfter(c, b)) => ItemPlaces(c, b) # {}

\* Bob comments in W1 after a mention of Bob and Carol in W1 and after a
\* mention of Bob in W2: Carol's mention and the one in W2 are reported,
\* Bob's in W1 is not.
C28_Witness ==
    /\ r_pc = "items_done"
    /\ \E r, c, d \in RComments :
          /\ r.author_gid = Bob /\ r.task_gid = "W1"
          /\ c.task_gid = "W1" /\ IsMentionOf(c, Carol) /\ IsMentionOf(c, Bob)
          /\ d.task_gid = "W2" /\ IsMentionOf(d, Bob)
          /\ r.created_at > c.created_at /\ r.created_at > d.created_at
          /\ ItemPlaces(c, Carol) # {} /\ ItemPlaces(d, Bob) # {}
          /\ ItemPlaces(c, Bob) = {}

====
